---- MODULE Spec2Model ----
(***************************************************************************)
(* Collaborator registry and share tokens of the note application:         *)
(* src/src/lib/collaborators.ts running against the notes table and the    *)
(* row-level security policies of                                          *)
(* src/supabase/migrations/20250130053659_bold_lab.sql.                    *)
(*                                                                         *)
(* Every registry function is two awaited requests (a select, then an      *)
(* update) with no lock in between; each request is one atomic step of the *)
(* database, evaluated under the policies for the session that sent it.    *)
(***************************************************************************)
EXTENDS Integers, Sequences, FiniteSets, TLC

\* ------------------------------------------------------------------ bounds
\* Calls (registry calls and direct requests) started in one behaviour when
\* calls may overlap, and when each call returns before the next starts.
MaxCalls == 2
MaxSeqCalls == 2
\* Requests sent in one behaviour of the policy specification.
MaxPolCalls == 3
\* Largest reading of the clock that stamps joined_at.
MaxTime == 1
\* Number of tokens crypto.randomUUID() hands out in one behaviour.
MaxTokens == 2
\* Clicks on the copy button of the ShareButton in one behaviour.
MaxCopies == 2

\* ------------------------------------------------------------------ values
NoteIds == {"n1", "n2"}
Procs == {"p1", "p2"}

Anon == "anon"
AuthUsers == {"alice", "bob"}
Callers == AuthUsers \cup {Anon}

Undefined == "undefined"
UserIds == {"bob", "carol"}
Emails == {Undefined, "b@x.com", "c@x.com"}
DisplayNames == {Undefined, "dn"}
Permissions == {"view", "edit"}
Titles == {"t0", "t1"}
EntryIds == {"e1", "e2"}
Contents == {"c0", "c1"}

\* Omit<Collaborator, 'joined_at'>: what a caller passes to inviteCollaborator.
\* The display name is given exactly when the email is (ShareButton derives it
\* from the email).
CollaboratorInputs ==
    {c \in [user_id : UserIds, email : Emails, display_name : DisplayNames,
            permission : Permissions] :
        (c.display_name = Undefined) <=> (c.email = Undefined)}

NoCollaborator ==
    [user_id |-> Undefined, email |-> Undefined, display_name |-> Undefined,
     permission |-> Undefined]

NullToken == 0
Tokens == 1..MaxTokens

\* ------------------------------------------------------- JSON and the column
\* A value of the jsonb column notes.collaborators, as the client sees it in a
\* response: SQL NULL, a JSON array, or a JSON string whose text is the
\* serialisation of a list.
NullJson == [kind |-> "null", val |-> <<>>]
JsonArray(l) == [kind |-> "array", val |-> l]

\* JSON.stringify(list): a string.  Sent as the value of a jsonb column it is
\* stored as a JSON string scalar, not as an array.
JSONstringify(l) == [kind |-> "string", val |-> l]

\* The test `noteData.collaborators ? ... : []`: null is falsy, an array
\* (also an empty one) and the non-empty string "[...]" are truthy.
Truthy(v) == v.kind # "null"

\* JSON.parse(v): v is first converted to a string.  A string produced by
\* JSON.stringify parses back to the list; an array of objects converts to ""
\* or "[object Object]", which is not JSON, and JSON.parse throws.
JSONparse(v) ==
    IF v.kind = "string"
    THEN [threw |-> FALSE, val |-> v.val]
    ELSE [threw |-> TRUE, val |-> <<>>]

\* `noteData.collaborators ? JSON.parse(noteData.collaborators) : []`
ParseExisting(v) ==
    IF Truthy(v) THEN JSONparse(v) ELSE [threw |-> FALSE, val |-> <<>>]

\* The list a stored value denotes, whatever its encoding.
ListOf(v) == v.val

\* ------------------------------------------------------------------ state
VARIABLES
    notes,      \* notes table: NoteIds -> row
    usedIds,    \* note ids gen_random_uuid() has handed out
    procs,      \* one record per in-flight or finished call
    now,        \* clock read by new Date()
    nextToken,  \* next value of crypto.randomUUID()
    calls,      \* calls started so far
    budget,     \* calls the behaviour may start
    urls,       \* per note, the tokens of the URLs generateShareLink returned
    entries,    \* note_entries table: EntryIds -> row
    down,       \* the storage service fails every request sent to it
    button      \* state of the ShareButton of note n1 in one browser

vars == <<notes, usedIds, procs, now, nextToken, calls, budget, urls,
          entries, down, button>>

NoRow ==
    [live |-> FALSE, user_id |-> Undefined, title |-> Undefined,
     collaborators |-> NullJson, sharing_token |-> NullToken]

\* Row inserted by createNoteMutation: collaborators is the JSON array [].
NewNoteRow(owner) ==
    [live |-> TRUE, user_id |-> owner, title |-> "t0",
     collaborators |-> JsonArray(<<>>), sharing_token |-> NullToken]

\* note_entries: no row under an id, and the row of an entry of note n.
NoEntry ==
    [live |-> FALSE, note_id |-> Undefined, content |-> Undefined,
     entry_order |-> 0]

NewEntryRowAt(n, content, index) ==
    [live |-> TRUE, note_id |-> n, content |-> content, entry_order |-> index]

NewEntryRow(n, content) == NewEntryRowAt(n, content, 0)

\* The ShareButton as first rendered in the browser of a signed-in user:
\* useState('') for shareLink, and nothing written to the clipboard yet.
\* A URL is written as its token, the empty string as EmptyText.
EmptyText == 0

NewButton(user) == [user |-> user, shareLink |-> EmptyText, copied |-> <<>>]

IdleProc ==
    [pc |-> "idle", op |-> "none", caller |-> Anon, noteId |-> "n1",
     owner |-> Undefined,
     collaborator |-> NoCollaborator, userId |-> Undefined,
     permission |-> Undefined, token |-> NullToken,
     existing |-> <<>>, updated |-> <<>>,
     result |-> "none", url |-> NullToken,
     before |-> NullJson, after |-> NullJson, wrote |-> FALSE,
     title |-> Undefined, submitted |-> <<>>, had |-> 0]

\* ------------------------------------------------- row-level security
\* jsonb_array_elements(collaborators): the elements of an array, no row for
\* SQL NULL (the function is strict), and the error "cannot extract elements
\* from a scalar" for a JSON string.
JsonbArrayElements(v) ==
    CASE v.kind = "array" -> [error |-> FALSE, rows |-> v.val]
      [] v.kind = "null" -> [error |-> FALSE, rows |-> <<>>]
      [] OTHER -> [error |-> TRUE, rows |-> <<>>]

\* "Users can create their own notes": WITH CHECK (auth.uid() = user_id).
NotesInsertPolicy(caller, row) ==
    IF caller \in AuthUsers /\ caller = row.user_id THEN "allow" ELSE "deny"

\* "Users can view their own notes or notes they collaborate on".  The policy
\* is TO authenticated: no policy applies to an anonymous session.  The OR
\* stops at its first true operand, so the owner's row never reaches
\* jsonb_array_elements.
NotesSelectPolicy(caller, row) ==
    IF caller \notin AuthUsers THEN "deny"
    ELSE IF caller = row.user_id THEN "allow"
    ELSE LET e == JsonbArrayElements(row.collaborators) IN
         IF e.error THEN "error"
         ELSE IF \E i \in DOMAIN e.rows : e.rows[i].user_id = caller
              THEN "allow" ELSE "deny"

\* "Users can update their own notes or notes they can edit".
NotesUpdatePolicy(caller, row) ==
    IF caller \notin AuthUsers THEN "deny"
    ELSE IF caller = row.user_id THEN "allow"
    ELSE LET e == JsonbArrayElements(row.collaborators) IN
         IF e.error THEN "error"
         ELSE IF \E i \in DOMAIN e.rows :
                    /\ e.rows[i].user_id = caller
                    /\ e.rows[i].permission = "edit"
              THEN "allow" ELSE "deny"

\* Variant of the delete policy that admits whoever may update the note.
NotesDeletePolicyForEditors(caller, row) == NotesUpdatePolicy(caller, row)

\* "Users can delete their own notes".
NotesDeletePolicy(caller, row) ==
    IF caller \in AuthUsers /\ caller = row.user_id THEN "allow" ELSE "deny"

\* The parent lookup shared by the policies of note_entries,
\*   EXISTS (SELECT 1 FROM notes WHERE notes.id = note_id AND ...):
\* the subquery runs as the caller, so it sees the parent under the SELECT
\* policy of notes.  "allow" when the parent row is visible.
VisibleParent(caller, n) ==
    IF caller \notin AuthUsers THEN "deny"
    ELSE IF n \notin NoteIds THEN "deny"
    ELSE IF ~notes[n].live THEN "deny"
    ELSE NotesSelectPolicy(caller, notes[n])

\* "Users can create entries for their notes": the parent is the caller's, or
\* lists the caller with permission edit.
EntriesInsertPolicy(caller, row) ==
    LET v == VisibleParent(caller, row.note_id) IN
    IF v # "allow" THEN v
    ELSE LET parent == notes[row.note_id]
             e == JsonbArrayElements(parent.collaborators)
         IN  IF parent.user_id = caller THEN "allow"
             ELSE IF e.error THEN "error"
             ELSE IF \E i \in DOMAIN e.rows :
                        /\ e.rows[i].user_id = caller
                        /\ e.rows[i].permission = "edit"
                  THEN "allow" ELSE "deny"

\* "Users can view entries of their notes or collaborated notes".
EntriesSelectPolicy(caller, row) ==
    LET v == VisibleParent(caller, row.note_id) IN
    IF v # "allow" THEN v
    ELSE LET parent == notes[row.note_id]
             e == JsonbArrayElements(parent.collaborators)
         IN  IF parent.user_id = caller THEN "allow"
             ELSE IF e.error THEN "error"
             ELSE IF \E i \in DOMAIN e.rows : e.rows[i].user_id = caller
                  THEN "allow" ELSE "deny"

\* "Users can update entries of their notes or editable notes".
EntriesUpdatePolicy(caller, row) ==
    LET v == VisibleParent(caller, row.note_id) IN
    IF v # "allow" THEN v
    ELSE LET parent == notes[row.note_id]
             e == JsonbArrayElements(parent.collaborators)
         IN  IF parent.user_id = caller THEN "allow"
             ELSE IF e.error THEN "error"
             ELSE IF \E i \in DOMAIN e.rows :
                        /\ e.rows[i].user_id = caller
                        /\ e.rows[i].permission = "edit"
                  THEN "allow" ELSE "deny"

\* "Users can delete entries of their notes".
EntriesDeletePolicy(caller, row) ==
    LET v == VisibleParent(caller, row.note_id) IN
    IF v # "allow" THEN v
    ELSE IF notes[row.note_id].user_id = caller THEN "allow" ELSE "deny"

\* ------------------------------------------------- requests to the store
\* Variant of the select that reports no error when no row comes back (as
\* .maybeSingle() does): the caller then sees a row without values.
SelectMaybeSingle(caller, n) ==
    LET row == notes[n]
        pol == IF row.live THEN NotesSelectPolicy(caller, row) ELSE "deny"
    IN  IF ~down /\ pol # "error"
        THEN [error |-> FALSE, row |-> IF pol = "allow" THEN row ELSE NoRow]
        ELSE [error |-> TRUE, row |-> NoRow]

\* supabase.from('notes').select(...).eq('id', n).single(): the row, or an
\* error when the request fails, the policy hides the row, the policy fails,
\* or there is no such row.
SelectSingle(caller, n) ==
    LET row == notes[n]
        pol == IF row.live THEN NotesSelectPolicy(caller, row) ELSE "deny"
    IN  IF ~down /\ pol = "allow"
        THEN [error |-> FALSE, row |-> row]
        ELSE [error |-> TRUE, row |-> NoRow]

\* Variant of the update whose error is not looked at: a failed request
\* counts as one that matched no row.
UpdateOutcomeUnchecked(caller, n, newRow) ==
    LET row == notes[n] IN
    IF down \/ ~row.live THEN "norows"
    ELSE LET s == NotesSelectPolicy(caller, row)
             u == NotesUpdatePolicy(caller, row)
         IN  IF s # "allow" \/ u # "allow" THEN "norows"
             ELSE IF NotesUpdatePolicy(caller, newRow) = "allow"
                  THEN "written" ELSE "norows"

\* supabase.from('notes').update(...).eq('id', n) with the row it would leave:
\* "written", "norows" (no visible row matched: the request reports no error)
\* or "error" (the request failed, a policy expression failed, or the new row
\* fails the policy, which stands in for the missing WITH CHECK).
UpdateOutcome(caller, n, newRow) ==
    LET row == notes[n] IN
    IF down THEN "error"
    ELSE IF ~row.live THEN "norows"
    ELSE LET s == NotesSelectPolicy(caller, row)
             u == NotesUpdatePolicy(caller, row)
         IN  IF s = "error" \/ u = "error" THEN "error"
             ELSE IF s = "deny" \/ u = "deny" THEN "norows"
             ELSE IF NotesUpdatePolicy(caller, newRow) = "allow"
                  THEN "written" ELSE "error"

\* Variant of the write that keeps the stored entries the new value lacks
\* (an append at the store instead of a whole-field overwrite).
UpdateApplyMerging(caller, n, newRow) ==
    IF UpdateOutcome(caller, n, newRow) = "written"
    THEN LET old == notes[n].collaborators.val
             new == newRow.collaborators.val
             kept == SelectSeq(old, LAMBDA e :
                        \A i \in DOMAIN new : new[i].user_id # e.user_id)
         IN  [notes EXCEPT ![n] =
                [newRow EXCEPT !.collaborators =
                    [kind |-> newRow.collaborators.kind, val |-> kept \o new]]]
    ELSE notes

\* Variant of the write sent without the filter on the id: every row the
\* caller may update receives the written fields.
UpdateApplyEveryRow(caller, n, newRow) ==
    [m \in NoteIds |->
        IF UpdateOutcome(caller, m, [notes[m] EXCEPT
                !.collaborators = newRow.collaborators,
                !.title = newRow.title,
                !.sharing_token = newRow.sharing_token]) = "written"
        THEN [notes[m] EXCEPT !.collaborators = newRow.collaborators,
                              !.title = newRow.title,
                              !.sharing_token = newRow.sharing_token]
        ELSE notes[m]]

\* Variant of the write that clears the share token whenever it changes the
\* collaborator list.
UpdateApplyClearingToken(caller, n, newRow) ==
    IF UpdateOutcome(caller, n, newRow) = "written"
    THEN [notes EXCEPT ![n] =
            IF newRow.collaborators # notes[n].collaborators
            THEN [newRow EXCEPT !.sharing_token = NullToken]
            ELSE newRow]
    ELSE notes

\* The table after the request.
UpdateApply(caller, n, newRow) ==
    IF UpdateOutcome(caller, n, newRow) = "written"
    THEN [notes EXCEPT ![n] = newRow]
    ELSE notes

\* ------------------------------------------------------------------ Init
\* alice has created note n1 with createNoteMutation, with one entry; n2 is not
\* created yet.
InitFor(b, user) ==
    /\ \E v \in {JsonArray(<<>>), NullJson} :
          notes = [n \in NoteIds |->
                     IF n = "n1"
                     THEN [NewNoteRow("alice") EXCEPT !.collaborators = v]
                     ELSE NoRow]
    /\ usedIds = {"n1"}
    /\ procs = [p \in Procs |-> IdleProc]
    /\ now = 0
    /\ nextToken = 1
    /\ calls = 0
    /\ budget = b
    /\ urls = [n \in NoteIds |-> <<>>]
    /\ entries = [e \in EntryIds |->
                    IF e = "e1" THEN NewEntryRow("n1", "c0") ELSE NoEntry]
    /\ down = FALSE
    /\ button = NewButton(user)

\* The ShareButton is open in alice's browser.
InitWith(b) == InitFor(b, "alice")

Init == InitWith(MaxCalls)

\* A call takes a free slot; with both free it takes p1 (the slots are
\* interchangeable).
CanStart(p) ==
    /\ procs[p].pc \in {"idle", "done"}
    /\ p = "p2" => procs["p1"].pc = "updating"
    /\ calls < budget

Begin(p, op, caller, n) ==
    [IdleProc EXCEPT !.op = op, !.caller = caller, !.noteId = n,
                     !.owner = notes[n].user_id,
                     !.before = notes[n].collaborators,
                     !.after = notes[n].collaborators]

\* ------------------------------------------------------------ environment
Tick ==
    /\ now < MaxTime
    /\ now' = now + 1
    /\ UNCHANGED <<notes, usedIds, procs, nextToken, calls, urls, budget, entries, down, button>>

\* createNoteMutation: insert {title, user_id: user.id, collaborators: []}
\* under a fresh id.
CreateNote(caller, n) ==
    /\ n \notin usedIds
    /\ NotesInsertPolicy(caller, NewNoteRow(caller)) = "allow"
    /\ notes' = [notes EXCEPT ![n] = NewNoteRow(caller)]
    /\ usedIds' = usedIds \cup {n}
    /\ UNCHANGED <<procs, now, nextToken, calls, urls, budget, entries, down, button>>

\* ------------------------------------------------------ inviteCollaborator
\* Variants of the duplicate test that look at one field only.
CollaboratorExistsByUserId(existing, c) ==
    \E i \in DOMAIN existing : existing[i].user_id = c.user_id

CollaboratorExistsByEmail(existing, c) ==
    \E i \in DOMAIN existing : existing[i].email = c.email

\* some(c => c.user_id === collaborator.user_id || c.email === collaborator.email)
CollaboratorExists(existing, c) ==
    \E i \in DOMAIN existing :
        \/ existing[i].user_id = c.user_id
        \/ existing[i].email = c.email

\* Variant of the new entry that always grants view.
NewCollaboratorViewOnly(c, t) ==
    [user_id |-> c.user_id, email |-> c.email, display_name |-> c.display_name,
     permission |-> "view", joined_at |-> t]

\* {...collaborator, joined_at: new Date().toISOString()}
NewCollaborator(c, t) ==
    [user_id |-> c.user_id, email |-> c.email, display_name |-> c.display_name,
     permission |-> c.permission, joined_at |-> t]

\* The select, and everything up to the point where the update is sent.
InviteFetch(p, caller, n, c) ==
    /\ CanStart(p)
    /\ LET sel == SelectSingle(caller, n)
           parsed == ParseExisting(sel.row.collaborators)
           b == [Begin(p, "invite", caller, n) EXCEPT !.collaborator = c]
       IN  procs' = [procs EXCEPT ![p] =
             IF sel.error \/ parsed.threw
             THEN [b EXCEPT !.pc = "done", !.result = "false"]
             ELSE IF CollaboratorExists(parsed.val, c)
             THEN [b EXCEPT !.pc = "done", !.result = "false",
                            !.existing = parsed.val]
             ELSE [b EXCEPT !.pc = "updating", !.existing = parsed.val,
                            !.updated = Append(parsed.val, NewCollaborator(c, now))]]
    /\ calls' = calls + 1
    /\ UNCHANGED <<notes, usedIds, now, nextToken, urls, budget, entries, down, button>>

\* The update of the collaborators column and the return.
CollaboratorsUpdate(p, op) ==
    /\ procs[p].pc = "updating"
    /\ procs[p].op = op
    /\ LET me == procs[p]
           newRow == [notes[me.noteId] EXCEPT
                        !.collaborators = JSONstringify(me.updated)]
           out == UpdateOutcome(me.caller, me.noteId, newRow)
       IN  /\ notes' = UpdateApply(me.caller, me.noteId, newRow)
           /\ procs' = [procs EXCEPT ![p] =
                 [me EXCEPT !.pc = "done",
                            !.result = IF out = "error" THEN "false" ELSE "true",
                            !.wrote = (out = "written"),
                            !.before = notes[me.noteId].collaborators,
                            !.after = notes'[me.noteId].collaborators]]
    /\ UNCHANGED <<usedIds, now, nextToken, calls, urls, budget, entries, down, button>>

InviteUpdate(p) == CollaboratorsUpdate(p, "invite")

\* ------------------------------------------------------ removeCollaborator
\* existingCollaborators.filter(c => c.user_id !== userId)
RECURSIVE FilterOut(_, _)
FilterOut(l, userId) ==
    IF l = <<>> THEN <<>>
    ELSE IF Head(l).user_id # userId
         THEN <<Head(l)>> \o FilterOut(Tail(l), userId)
         ELSE FilterOut(Tail(l), userId)

RemoveFetch(p, caller, n, userId) ==
    /\ CanStart(p)
    /\ LET sel == SelectSingle(caller, n)
           parsed == ParseExisting(sel.row.collaborators)
           b == [Begin(p, "remove", caller, n) EXCEPT !.userId = userId]
       IN  procs' = [procs EXCEPT ![p] =
             IF sel.error \/ parsed.threw
             THEN [b EXCEPT !.pc = "done", !.result = "false"]
             ELSE [b EXCEPT !.pc = "updating", !.existing = parsed.val,
                            !.updated = FilterOut(parsed.val, userId)]]
    /\ calls' = calls + 1
    /\ UNCHANGED <<notes, usedIds, now, nextToken, urls, budget, entries, down, button>>

RemoveUpdate(p) == CollaboratorsUpdate(p, "remove")

\* -------------------------------------------- updateCollaboratorPermission
\* existingCollaborators.map(c => c.user_id === userId ? {...c, permission} : c)
MapPermission(l, userId, permission) ==
    [i \in DOMAIN l |->
        IF l[i].user_id = userId
        THEN [l[i] EXCEPT !.permission = permission]
        ELSE l[i]]

UpdatePermissionFetch(p, caller, n, userId, permission) ==
    /\ CanStart(p)
    /\ LET sel == SelectSingle(caller, n)
           parsed == ParseExisting(sel.row.collaborators)
           b == [Begin(p, "updatePermission", caller, n) EXCEPT
                    !.userId = userId, !.permission = permission]
       IN  procs' = [procs EXCEPT ![p] =
             IF sel.error \/ parsed.threw
             THEN [b EXCEPT !.pc = "done", !.result = "false"]
             ELSE [b EXCEPT !.pc = "updating", !.existing = parsed.val,
                            !.updated = MapPermission(parsed.val, userId, permission)]]
    /\ calls' = calls + 1
    /\ UNCHANGED <<notes, usedIds, now, nextToken, urls, budget, entries, down, button>>

UpdatePermissionUpdate(p) == CollaboratorsUpdate(p, "updatePermission")

\* -------------------------------------------------------- generateShareLink
\* One request: update({sharing_token: crypto.randomUUID()}).  The URL
\* (origin/share/<noteId>?token=<token>) is returned unless the update
\* reports an error.
GenerateShareLinkRequest(p, caller, n) ==
    /\ CanStart(p)
    /\ nextToken <= MaxTokens
    /\ LET token == nextToken
           newRow == [notes[n] EXCEPT !.sharing_token = token]
           out == UpdateOutcome(caller, n, newRow)
           b == [Begin(p, "generateShareLink", caller, n) EXCEPT !.token = token]
       IN  /\ notes' = UpdateApply(caller, n, newRow)
           /\ procs' = [procs EXCEPT ![p] =
                 [b EXCEPT !.pc = "done",
                           !.result = IF out = "error" THEN "false" ELSE "true",
                           !.url = IF out = "error" THEN NullToken ELSE token,
                           !.wrote = (out = "written")]]
           /\ urls' = IF out = "error" THEN urls
                      ELSE [urls EXCEPT ![n] = Append(@, token)]
    /\ nextToken' = nextToken + 1
    /\ calls' = calls + 1
    /\ UNCHANGED <<usedIds, now, budget, entries, down>>

\* generateShareLink called directly, not from a ShareButton.
GenerateShareLink(p, caller, n) ==
    /\ GenerateShareLinkRequest(p, caller, n)
    /\ UNCHANGED button

\* -------------------------------------------------------- validateShareToken
\* select('sharing_token').eq('id', n).single(), then data.sharing_token === token.
ValidateResult(caller, n, token) ==
    LET sel == SelectSingle(caller, n) IN
    IF sel.error THEN FALSE ELSE sel.row.sharing_token = token

ValidateShareToken(p, caller, n, token) ==
    /\ CanStart(p)
    /\ procs' = [procs EXCEPT ![p] =
          [Begin(p, "validateShareToken", caller, n) EXCEPT
              !.pc = "done", !.token = token,
              !.result = IF ValidateResult(caller, n, token) THEN "true" ELSE "false"]]
    /\ calls' = calls + 1
    /\ UNCHANGED <<notes, usedIds, now, nextToken, urls, budget, entries, down, button>>

\* ------------------------------------------------------------ other requests
\* Entries a client may put into the column with its own update request.
DirectEntries ==
    {[user_id |-> "bob", email |-> Undefined, display_name |-> Undefined,
      permission |-> q, joined_at |-> 0] : q \in Permissions}
    \cup
    {[user_id |-> "carol", email |-> Undefined, display_name |-> Undefined,
      permission |-> "view", joined_at |-> 0]}

DirectValues ==
    {NullJson, JsonArray(<<>>)}
    \cup {JsonArray(<<e>>) : e \in DirectEntries}
    \cup {JsonArray(<<e, f>>) : e \in DirectEntries, f \in DirectEntries}

\* A client's own supabase.from('notes').update({collaborators: v}).eq('id', n):
\* the request every policy has to withstand.
DirectUpdate(p, caller, n, v) ==
    /\ CanStart(p)
    /\ LET newRow == [notes[n] EXCEPT !.collaborators = v]
           out == UpdateOutcome(caller, n, newRow)
       IN  /\ notes' = UpdateApply(caller, n, newRow)
           /\ procs' = [procs EXCEPT ![p] =
                 [Begin(p, "directUpdate", caller, n) EXCEPT
                     !.pc = "done",
                     !.result = IF out = "error" THEN "false" ELSE "true",
                     !.wrote = (out = "written"),
                     !.after = notes'[n].collaborators]]
    /\ calls' = calls + 1
    /\ UNCHANGED <<usedIds, now, nextToken, urls, budget, entries, down, button>>

\* deleteNoteMutation: delete().eq('id', n); rows the policies hide are not
\* deleted and no error is reported.  The entries of a deleted note go with
\* it (note_id ... ON DELETE CASCADE), whatever the policies on note_entries.
\* Variant of the cascade that leaves the entries where they are.
EntriesKept(n) == entries

\* note_id uuid REFERENCES notes(id) ON DELETE CASCADE: the entries table once
\* the row of note n is gone.
EntriesAfterCascade(n) ==
    [e \in EntryIds |->
        IF entries[e].live /\ entries[e].note_id = n
        THEN NoEntry ELSE entries[e]]

DeleteNote(p, caller, n) ==
    /\ CanStart(p)
    /\ LET row == notes[n]
           sel == IF row.live THEN NotesSelectPolicy(caller, row) ELSE "deny"
           failed == down \/ sel = "error"
           ok == /\ ~failed
                 /\ sel = "allow"
                 /\ NotesDeletePolicy(caller, row) = "allow"
       IN  /\ notes' = IF ok THEN [notes EXCEPT ![n] = NoRow] ELSE notes
           /\ entries' = IF ok THEN EntriesAfterCascade(n) ELSE entries
           /\ procs' = [procs EXCEPT ![p] =
                 [Begin(p, "deleteNote", caller, n) EXCEPT
                     !.pc = "done",
                     !.result = IF failed THEN "false" ELSE "true",
                     !.wrote = ok,
                     !.after = notes'[n].collaborators]]
    /\ calls' = calls + 1
    /\ UNCHANGED <<usedIds, now, nextToken, urls, budget, down, button>>

\* updateNoteMutation, first request: update({title}).eq('id', n).
UpdateNoteTitle(p, caller, n, title) ==
    /\ CanStart(p)
    /\ LET newRow == [notes[n] EXCEPT !.title = title]
           out == UpdateOutcome(caller, n, newRow)
       IN  /\ notes' = UpdateApply(caller, n, newRow)
           /\ procs' = [procs EXCEPT ![p] =
                 [Begin(p, "updateNote", caller, n) EXCEPT
                     !.pc = "done", !.title = title,
                     !.result = IF out = "error" THEN "false" ELSE "true",
                     !.wrote = (out = "written")]]
    /\ calls' = calls + 1
    /\ UNCHANGED <<usedIds, now, nextToken, urls, budget, entries, down, button>>

\* updateNoteMutation, second request: note_entries.delete().eq('note_id', n).
\* Entries the policies hide are left alone and no error is reported.
DeleteEntries(p, caller, n) ==
    /\ CanStart(p)
    /\ LET mine == {e \in EntryIds : entries[e].live /\ entries[e].note_id = n}
           failed == \/ down
                     \/ \E e \in mine :
                           \/ EntriesSelectPolicy(caller, entries[e]) = "error"
                           \/ EntriesDeletePolicy(caller, entries[e]) = "error"
           gone == IF failed THEN {}
                   ELSE {e \in mine :
                           /\ EntriesSelectPolicy(caller, entries[e]) = "allow"
                           /\ EntriesDeletePolicy(caller, entries[e]) = "allow"}
       IN  /\ entries' = [e \in EntryIds |->
                            IF e \in gone THEN NoEntry ELSE entries[e]]
           /\ procs' = [procs EXCEPT ![p] =
                 [Begin(p, "deleteEntries", caller, n) EXCEPT
                     !.pc = "done",
                     !.result = IF failed THEN "false" ELSE "true",
                     !.wrote = (gone # {})]]
    /\ calls' = calls + 1
    /\ UNCHANGED <<notes, usedIds, now, nextToken, urls, budget, down, button>>

\* updateNoteMutation, third request, for one entry:
\* note_entries.insert({note_id: n, content, entry_order}).  A row the INSERT
\* policy refuses is an error of the request.
InsertEntry(p, caller, n, content) ==
    /\ CanStart(p)
    /\ \E e \in EntryIds : ~entries[e].live
    /\ LET e == CHOOSE x \in EntryIds : ~entries[x].live
           row == NewEntryRow(n, content)
           ok == ~down /\ EntriesInsertPolicy(caller, row) = "allow"
       IN  /\ entries' = IF ok THEN [entries EXCEPT ![e] = row] ELSE entries
           /\ procs' = [procs EXCEPT ![p] =
                 [Begin(p, "insertEntry", caller, n) EXCEPT
                     !.pc = "done",
                     !.result = IF ok THEN "true" ELSE "false",
                     !.wrote = ok]]
    /\ calls' = calls + 1
    /\ UNCHANGED <<notes, usedIds, now, nextToken, urls, budget, down, button>>

\* The entries a save submits (noteData.entries), as their contents.
Submissions == {<<"c0">>, <<"c1">>, <<"c1", "c0">>}

\* The live entries of note n.
EntriesOf(n) == {e \in EntryIds : entries[e].live /\ entries[e].note_id = n}

\* updateNoteMutation as one mutation.  First request: update({title}); an
\* error is thrown, an update that matched no row is not an error.
SaveNote(p, caller, n, title, submitted) ==
    /\ CanStart(p)
    /\ LET newRow == [notes[n] EXCEPT !.title = title]
           out == UpdateOutcome(caller, n, newRow)
           b == [Begin(p, "saveNote", caller, n) EXCEPT
                    !.title = title, !.submitted = submitted,
                    !.had = Cardinality(EntriesOf(n))]
       IN  /\ notes' = UpdateApply(caller, n, newRow)
           /\ procs' = [procs EXCEPT ![p] =
                 IF out = "error"
                 THEN [b EXCEPT !.pc = "done", !.result = "false"]
                 ELSE [b EXCEPT !.pc = "deleting", !.wrote = (out = "written")]]
    /\ calls' = calls + 1
    /\ UNCHANGED <<usedIds, now, nextToken, urls, budget, entries, down, button>>

\* The rows delete().eq('note_id', n) removes for the caller: those the
\* SELECT and DELETE policies of note_entries both admit.
EntriesDeleted(caller, n) ==
    {e \in EntriesOf(n) :
        /\ EntriesSelectPolicy(caller, entries[e]) = "allow"
        /\ EntriesDeletePolicy(caller, entries[e]) = "allow"}

\* Second request: note_entries.delete().eq('note_id', n); an error is thrown.
SaveDeleteEntries(p) ==
    /\ procs[p].pc = "deleting"
    /\ LET me == procs[p]
           n == me.noteId
           failed == \/ down
                     \/ \E e \in EntriesOf(n) :
                           \/ EntriesSelectPolicy(me.caller, entries[e]) = "error"
                           \/ EntriesDeletePolicy(me.caller, entries[e]) = "error"
           gone == IF failed THEN {} ELSE EntriesDeleted(me.caller, n)
       IN  /\ entries' = [e \in EntryIds |->
                            IF e \in gone THEN NoEntry ELSE entries[e]]
           /\ procs' = [procs EXCEPT ![p] =
                 IF failed
                 THEN [me EXCEPT !.pc = "done", !.result = "false"]
                 ELSE [me EXCEPT !.pc = "inserting"]]
    /\ UNCHANGED <<notes, usedIds, now, nextToken, calls, urls, budget, down,
                   button>>

\* noteData.entries.map((entry, index) => ({note_id, content, entry_order:
\* index})), each row stored under a fresh id.
RECURSIVE InsertRows(_, _, _, _)
InsertRows(table, n, contents, index) ==
    IF contents = <<>> THEN table
    ELSE LET e == CHOOSE x \in EntryIds : ~table[x].live IN
         InsertRows([table EXCEPT ![e] = NewEntryRowAt(n, Head(contents), index)],
                    n, Tail(contents), index + 1)

\* Third request: note_entries.insert(entries), all rows or none; a row the
\* INSERT policy refuses is an error, which is thrown.
SaveInsertEntries(p) ==
    /\ procs[p].pc = "inserting"
    /\ LET me == procs[p]
           n == me.noteId
           free == {e \in EntryIds : ~entries[e].live}
           ok == /\ ~down
                 /\ EntriesInsertPolicy(me.caller, NewEntryRow(n, "c0")) = "allow"
       IN  /\ Cardinality(free) >= Len(me.submitted)
           /\ entries' = IF ok THEN InsertRows(entries, n, me.submitted, 0)
                         ELSE entries
           /\ procs' = [procs EXCEPT ![p] =
                 [me EXCEPT !.pc = "done",
                            !.result = IF ok THEN "true" ELSE "false"]]
    /\ UNCHANGED <<notes, usedIds, now, nextToken, calls, urls, budget, down,
                   button>>

\* A client's own note_entries.update({content}).eq('id', e): the request the
\* UPDATE policy of note_entries governs.  The policy has no WITH CHECK, so
\* its USING expression is applied to the new row too; the parent is kept.
UpdateEntry(p, caller, e, content) ==
    /\ CanStart(p)
    /\ entries[e].live
    /\ LET row == entries[e]
           s == EntriesSelectPolicy(caller, row)
           u == EntriesUpdatePolicy(caller, row)
           failed == down \/ s = "error" \/ u = "error"
           ok == ~failed /\ s = "allow" /\ u = "allow"
       IN  /\ entries' = IF ok THEN [entries EXCEPT ![e].content = content]
                         ELSE entries
           /\ procs' = [procs EXCEPT ![p] =
                 [Begin(p, "updateEntry", caller, row.note_id) EXCEPT
                     !.pc = "done",
                     !.result = IF failed THEN "false" ELSE "true",
                     !.wrote = ok]]
    /\ calls' = calls + 1
    /\ UNCHANGED <<notes, usedIds, now, nextToken, urls, budget, down, button>>

\* A select of entry e by caller returns the row (the note_entries part of
\* the notes query of the Index page).
CanReadEntry(caller, e) ==
    /\ ~down
    /\ entries[e].live
    /\ EntriesSelectPolicy(caller, entries[e]) = "allow"

\* The storage service becomes unreachable, or reachable again.
Outage ==
    /\ down' = ~down
    /\ UNCHANGED <<notes, usedIds, procs, now, nextToken, calls, urls, budget,
                   entries, button>>

\* ---------------------------------------------------------------- ShareButton
\* auth.users: the id of each account (a uuid, written here as a name) and
\* the email address the account belongs to.
AccountEmail ==
    [u \in AuthUsers |-> IF u = "alice" THEN "a@x.com" ELSE "b@x.com"]

\* What is typed into the email field, character by character.
InviteEmails ==
    {<<>>, <<"b", "o", "b">>, <<"b", "@", "x", ".", "c", "o", "m">>}

\* [a-zA-Z0-9]
Alphanumerics ==
    {"a", "b", "c", "d", "e", "f", "g", "h", "i", "j", "k", "l", "m",
     "n", "o", "p", "q", "r", "s", "t", "u", "v", "w", "x", "y", "z",
     "A", "B", "C", "D", "E", "F", "G", "H", "I", "J", "K", "L", "M",
     "N", "O", "P", "Q", "R", "S", "T", "U", "V", "W", "X", "Y", "Z",
     "0", "1", "2", "3", "4", "5", "6", "7", "8", "9"}

\* The string made of the characters.
RECURSIVE Join(_)
Join(chars) ==
    IF chars = <<>> THEN "" ELSE Head(chars) \o Join(Tail(chars))

\* email.replace(/[^a-zA-Z0-9]/g, '_')
RECURSIVE ReplaceNonAlphanumerics(_)
ReplaceNonAlphanumerics(chars) ==
    IF chars = <<>> THEN <<>>
    ELSE <<IF Head(chars) \in Alphanumerics THEN Head(chars) ELSE "_">>
         \o ReplaceNonAlphanumerics(Tail(chars))

\* email.includes('@')
Includes(chars, ch) == \E i \in DOMAIN chars : chars[i] = ch

\* email.split('@')[0]
RECURSIVE BeforeFirst(_, _)
BeforeFirst(chars, ch) ==
    IF chars = <<>> \/ Head(chars) = ch THEN <<>>
    ELSE <<Head(chars)>> \o BeforeFirst(Tail(chars), ch)

\* `user_${email.replace(/[^a-zA-Z0-9]/g, '_')}`
SynthesizedUserId(chars) == "user_" \o Join(ReplaceNonAlphanumerics(chars))

\* handleInvite up to the await of inviteCollaborator's select; an empty
\* email or one without '@' is refused with a toast and nothing is sent.
HandleInvite(p, chars, permission) ==
    /\ chars # <<>>
    /\ Includes(chars, "@")
    /\ InviteFetch(p, button.user, "n1",
                   [user_id |-> SynthesizedUserId(chars),
                    email |-> Join(chars),
                    display_name |-> Join(BeforeFirst(chars, "@")),
                    permission |-> permission])

\* setShareLink(url), reached only when generateShareLink gave a URL.
SetShareLink(b, url) ==
    IF url # NullToken THEN [b EXCEPT !.shareLink = url] ELSE b

\* handleGenerateShareLink
HandleGenerateShareLink(p) ==
    /\ GenerateShareLinkRequest(p, button.user, "n1")
    /\ button' = SetShareLink(button, procs'[p].url)

\* handleCopyShareLink: shareLink is the constant of the render the handler
\* was created in, so writeText receives the value from before the await.
HandleCopyShareLink(p) ==
    /\ Len(button.copied) < MaxCopies
    /\ LET shareLink == button.shareLink IN
       IF shareLink = EmptyText
       THEN /\ GenerateShareLinkRequest(p, button.user, "n1")
            /\ button' = [SetShareLink(button, procs'[p].url) EXCEPT
                             !.copied = Append(@, shareLink)]
       ELSE /\ p = "p1"
            /\ button' = [button EXCEPT !.copied = Append(@, shareLink)]
            /\ UNCHANGED <<notes, usedIds, procs, now, nextToken, calls, urls,
                           budget, entries, down>>

\* ------------------------------------------------------------ specifications
Next ==
    \/ Tick
    \/ \E caller \in AuthUsers, n \in NoteIds : CreateNote(caller, n)
    \/ \E p \in Procs, caller \in Callers, n \in NoteIds, c \in CollaboratorInputs :
          InviteFetch(p, caller, n, c)
    \/ \E p \in Procs : InviteUpdate(p)
    \/ \E p \in Procs, caller \in Callers, n \in NoteIds, u \in UserIds :
          RemoveFetch(p, caller, n, u)
    \/ \E p \in Procs : RemoveUpdate(p)
    \/ \E p \in Procs, caller \in Callers, n \in NoteIds, u \in UserIds,
          q \in Permissions :
          UpdatePermissionFetch(p, caller, n, u, q)
    \/ \E p \in Procs : UpdatePermissionUpdate(p)
    \/ \E p \in Procs, caller \in Callers, n \in NoteIds :
          GenerateShareLink(p, caller, n)
    \/ \E p \in Procs, caller \in Callers, n \in NoteIds, t \in Tokens :
          ValidateShareToken(p, caller, n, t)
    \/ \E p \in Procs, caller \in Callers, n \in NoteIds, v \in DirectValues :
          DirectUpdate(p, caller, n, v)
    \/ \E p \in Procs, caller \in Callers, n \in NoteIds :
          DeleteNote(p, caller, n)

Spec == Init /\ [][Next]_vars

\* The collaborator registry alone: any interleaving of inviteCollaborator,
\* removeCollaborator and updateCollaboratorPermission on note n1, called by
\* its owner and by another signed-in user.
RegNext ==
    \/ Tick
    \/ \E p \in Procs, caller \in AuthUsers, c \in CollaboratorInputs :
          InviteFetch(p, caller, "n1", c)
    \/ \E p \in Procs : InviteUpdate(p)
    \/ \E p \in Procs, caller \in AuthUsers, u \in UserIds :
          RemoveFetch(p, caller, "n1", u)
    \/ \E p \in Procs : RemoveUpdate(p)
    \/ \E p \in Procs, caller \in AuthUsers, u \in UserIds, q \in Permissions :
          UpdatePermissionFetch(p, caller, "n1", u, q)
    \/ \E p \in Procs : UpdatePermissionUpdate(p)

RegSpec == Init /\ [][RegNext]_vars

\* The registry on a note whose list already holds bob: alice invited him
\* earlier (inviteCollaborator stored the list as JSON text).
BobListed ==
    JSONstringify(<<NewCollaborator(
        [user_id |-> "bob", email |-> Undefined, display_name |-> Undefined,
         permission |-> "view"], 0)>>)

InitListed ==
    /\ notes = [n \in NoteIds |->
                  IF n = "n1"
                  THEN [NewNoteRow("alice") EXCEPT !.collaborators = BobListed]
                  ELSE NoRow]
    /\ usedIds = {"n1"}
    /\ procs = [p \in Procs |-> IdleProc]
    /\ now = 0
    /\ nextToken = 1
    /\ calls = 0
    /\ budget = MaxCalls
    /\ urls = [n \in NoteIds |-> <<>>]
    /\ entries = [e \in EntryIds |->
                    IF e = "e1" THEN NewEntryRow("n1", "c0") ELSE NoEntry]
    /\ down = FALSE
    /\ button = NewButton("alice")

ListedSpec == InitListed /\ [][RegNext]_vars

\* The ShareButton of note n1, open in the browser of a signed-in user.
ShareInit == \E user \in AuthUsers : InitFor(MaxCalls, user)

ShareNext ==
    \/ \E p \in Procs, chars \in InviteEmails, q \in Permissions :
          HandleInvite(p, chars, q)
    \/ \E p \in Procs : InviteUpdate(p)
    \/ \E p \in Procs : HandleGenerateShareLink(p)
    \/ \E p \in Procs : HandleCopyShareLink(p)

ShareSpec == ShareInit /\ [][ShareNext]_vars

\* Saving note n1 from the Index page, one save at a time, by any caller;
\* alice may first set the collaborator list with her own update, and the
\* store may fail between requests.
SaveNext ==
    \/ Outage
    \/ \E v \in DirectValues : DirectUpdate("p1", "alice", "n1", v)
    \/ \E caller \in Callers, t \in Titles, submitted \in Submissions :
          SaveNote("p1", caller, "n1", t, submitted)
    \/ SaveDeleteEntries("p1")
    \/ SaveInsertEntries("p1")

SaveSpec == InitWith(MaxPolCalls) /\ [][SaveNext]_vars

\* The registry against a store that may fail: one call at a time on note
\* n1, with outages beginning and ending between any two requests.
FailNext ==
    \/ Outage
    \/ \E caller \in AuthUsers, c \in CollaboratorInputs :
          InviteFetch("p1", caller, "n1", c)
    \/ InviteUpdate("p1")
    \/ \E caller \in AuthUsers, u \in UserIds : RemoveFetch("p1", caller, "n1", u)
    \/ RemoveUpdate("p1")
    \/ \E caller \in AuthUsers, u \in UserIds, q \in Permissions :
          UpdatePermissionFetch("p1", caller, "n1", u, q)
    \/ UpdatePermissionUpdate("p1")
    \/ \E caller \in AuthUsers : GenerateShareLink("p1", caller, "n1")
    \/ \E caller \in AuthUsers, t \in Tokens :
          ValidateShareToken("p1", caller, "n1", t)

FailSpec == InitWith(MaxSeqCalls) /\ [][FailNext]_vars

\* Two notes side by side: overlapping registry calls of the signed-in users
\* on n1 and on a second note that one of them creates, next to the owner's
\* changes of a title.
FrameInvites == {c \in CollaboratorInputs : c.email = Undefined}

FrameNext ==
    \/ \E caller \in AuthUsers : CreateNote(caller, "n2")
    \/ \E p \in Procs, caller \in AuthUsers, n \in NoteIds, c \in FrameInvites :
          InviteFetch(p, caller, n, c)
    \/ \E p \in Procs : InviteUpdate(p)
    \/ \E p \in Procs, caller \in AuthUsers, n \in NoteIds, u \in UserIds :
          RemoveFetch(p, caller, n, u)
    \/ \E p \in Procs : RemoveUpdate(p)
    \/ \E p \in Procs, caller \in AuthUsers, n \in NoteIds, u \in UserIds,
          q \in Permissions :
          UpdatePermissionFetch(p, caller, n, u, q)
    \/ \E p \in Procs : UpdatePermissionUpdate(p)
    \/ \E p \in Procs, caller \in AuthUsers, n \in NoteIds :
          GenerateShareLink(p, caller, n)
    \/ \E p \in Procs, caller \in AuthUsers, n \in NoteIds, t \in Tokens :
          ValidateShareToken(p, caller, n, t)
    \/ \E p \in Procs, caller \in AuthUsers, n \in NoteIds, t \in Titles :
          UpdateNoteTitle(p, caller, n, t)

FrameSpec == Init /\ [][FrameNext]_vars

\* Notes and their entries, one request at a time: a second note is created,
\* entries are inserted into both notes, changed and deleted, notes are
\* deleted.
CascadeNext ==
    \/ \E caller \in AuthUsers : CreateNote(caller, "n2")
    \/ \E caller \in AuthUsers, n \in NoteIds, c \in Contents :
          InsertEntry("p1", caller, n, c)
    \/ \E caller \in AuthUsers, e \in EntryIds, c \in Contents :
          UpdateEntry("p1", caller, e, c)
    \/ \E caller \in AuthUsers, n \in NoteIds : DeleteEntries("p1", caller, n)
    \/ \E caller \in AuthUsers, n \in NoteIds : DeleteNote("p1", caller, n)

CascadeSpec == InitWith(MaxPolCalls) /\ [][CascadeNext]_vars

\* The policies, one request at a time on note n1: the owner and the other
\* sessions send updates of the note, of its collaborators and of its entries,
\* and deletes; the owner also invites through the registry.
PolInvites == {c \in CollaboratorInputs : c.user_id = "bob" /\ c.email = Undefined}

PolNext ==
    \/ \E caller \in Callers, v \in DirectValues : DirectUpdate("p1", caller, "n1", v)
    \/ \E c \in PolInvites : InviteFetch("p1", "alice", "n1", c)
    \/ InviteUpdate("p1")
    \/ \E caller \in Callers, t \in Titles : UpdateNoteTitle("p1", caller, "n1", t)
    \/ \E caller \in Callers, c \in Contents : InsertEntry("p1", caller, "n1", c)
    \/ \E caller \in Callers, e \in EntryIds, c \in Contents :
          UpdateEntry("p1", caller, e, c)
    \/ \E caller \in Callers : DeleteEntries("p1", caller, "n1")
    \/ \E caller \in Callers : DeleteNote("p1", caller, "n1")

PolSpec == InitWith(MaxPolCalls) /\ [][PolNext]_vars

\* The registry with one call at a time: every call runs in slot p1 and
\* returns before the next starts.
SeqNext ==
    \/ Tick
    \/ \E caller \in AuthUsers, n \in NoteIds : CreateNote(caller, n)
    \/ \E caller \in Callers, n \in NoteIds, c \in CollaboratorInputs :
          InviteFetch("p1", caller, n, c)
    \/ InviteUpdate("p1")
    \/ \E caller \in Callers, n \in NoteIds, u \in UserIds :
          RemoveFetch("p1", caller, n, u)
    \/ RemoveUpdate("p1")
    \/ \E caller \in Callers, n \in NoteIds, u \in UserIds, q \in Permissions :
          UpdatePermissionFetch("p1", caller, n, u, q)
    \/ UpdatePermissionUpdate("p1")

SeqSpec == InitWith(MaxSeqCalls) /\ [][SeqNext]_vars

\* ------------------------------------------------------------------ claims
HasUser(l, userId) == \E i \in DOMAIN l : l[i].user_id = userId

SameIdentity(c, d) == c.user_id = d.user_id \/ c.email = d.email

\* C1: with one call at a time, when inviteCollaborator(N,U) has returned true
\* and the next call is inviteCollaborator(N,U') with U's user_id or U's email,
\* that call returns false at once and the table is left as it was.
C1_SequentialUniqueness ==
    [][LET a == procs["p1"]
           b == procs'["p1"]
       IN  (/\ a.pc = "done" /\ a.op = "invite" /\ a.result = "true"
            /\ calls' = calls + 1
            /\ b.op = "invite" /\ b.noteId = a.noteId
            /\ SameIdentity(b.collaborator, a.collaborator))
           => (b.pc = "done" /\ b.result = "false" /\ notes' = notes)]_vars

\* A second invitation of a listed identity has been refused without a write.
C1_Witness ==
    LET b == procs["p1"] IN
    /\ b.pc = "done" /\ b.op = "invite" /\ b.result = "false" /\ ~b.wrote
    /\ calls >= 2
    /\ notes[b.noteId].live
    /\ b.existing # <<>>
    /\ CollaboratorExists(b.existing, b.collaborator)
    /\ ListOf(notes[b.noteId].collaborators) = b.existing

\* No two entries with the same user_id or the same email.
NoDuplicates(l) ==
    \A i \in DOMAIN l : \A j \in DOMAIN l :
        i # j => (l[i].user_id # l[j].user_id /\ l[i].email # l[j].email)

\* C2: under any interleaving of the three registry operations on a note that
\* starts with an empty list, no two entries of the stored list have the same
\* user_id or the same email.
C2_Uniqueness ==
    \A n \in NoteIds : notes[n].live => NoDuplicates(ListOf(notes[n].collaborators))

\* Two overlapping invitations of one user read the same list and both
\* returned true; the list holds that user once, next to nobody else.
C2_Witness ==
    LET a == procs["p1"]
        b == procs["p2"]
    IN  /\ a.pc = "done" /\ a.op = "invite" /\ a.result = "true" /\ a.wrote
        /\ b.pc = "done" /\ b.op = "invite" /\ b.result = "true" /\ b.wrote
        /\ a.noteId = b.noteId
        /\ a.existing = b.existing
        /\ a.collaborator.user_id = b.collaborator.user_id
        /\ Len(ListOf(notes[a.noteId].collaborators)) = 1

\* Calls a and b are invitations of different collaborators that read the
\* same list, both returned true, and b wrote right after a.
Racing(a, b) ==
    /\ a.pc = "done" /\ a.op = "invite" /\ a.result = "true" /\ a.wrote
    /\ b.pc = "done" /\ b.op = "invite" /\ b.result = "true" /\ b.wrote
    /\ a.noteId = b.noteId
    /\ a.existing = b.existing
    /\ a.collaborator.user_id # b.collaborator.user_id
    /\ a.collaborator.email # b.collaborator.email
    /\ b.before = a.after

\* C3: two overlapping invitations of different collaborators that read the
\* same list and both return true: the list left by the second write is the
\* list both read plus the second call's collaborator, without the first's.
C3_LostInvitation ==
    \A p \in Procs : \A q \in Procs \ {p} :
        Racing(procs[p], procs[q]) =>
            LET a == procs[p]
                b == procs[q]
                left == ListOf(b.after)
            IN  /\ Len(left) = Len(b.existing) + 1
                /\ SubSeq(left, 1, Len(b.existing)) = b.existing
                /\ left[Len(left)].user_id = b.collaborator.user_id
                /\ ~HasUser(left, a.collaborator.user_id)

\* The race has happened and the stored list is the one the second write left.
C3_Witness ==
    \E p \in Procs : \E q \in Procs \ {p} :
        /\ Racing(procs[p], procs[q])
        /\ notes[procs[q].noteId].collaborators = procs[q].after
        /\ ~HasUser(ListOf(notes[procs[q].noteId].collaborators),
                    procs[p].collaborator.user_id)

\* C4: with one call at a time, removeCollaborator(N,U) called by the owner of
\* an existing note whose list has no entry for U returns true and leaves the
\* stored list as it was.
C4_IdempotentRemoval ==
    \A p \in Procs :
        LET a == procs[p] IN
        (/\ a.pc = "done" /\ a.op = "remove"
         /\ a.caller = a.owner
         /\ ~HasUser(ListOf(a.before), a.userId))
        => (a.result = "true" /\ ListOf(a.after) = ListOf(a.before))

\* new is old with the permission of userId's entry set, and nothing else.
OnlyPermissionChanged(old, new, userId, permission) ==
    /\ Len(new) = Len(old)
    /\ \A i \in DOMAIN old :
          IF old[i].user_id = userId
          THEN new[i] = [old[i] EXCEPT !.permission = permission]
          ELSE new[i] = old[i]

\* C5: with one call at a time, updateCollaboratorPermission(N,U,p) called by
\* the owner of an existing note returns true; the stored list keeps its length
\* and order, U's entry (if any) changes in permission only, every other entry
\* is unchanged.
C5_PermissionUpdate ==
    \A p \in Procs :
        LET a == procs[p] IN
        (/\ a.pc = "done" /\ a.op = "updatePermission"
         /\ a.caller = a.owner)
        => (/\ a.result = "true"
            /\ OnlyPermissionChanged(ListOf(a.before), ListOf(a.after),
                                     a.userId, a.permission))

\* The token of the last URL generateShareLink returned for n.
LastUrl(n) == urls[n][Len(urls[n])]

\* C6: while the token T of the last URL generateShareLink(N) returned has not
\* been followed by another generateShareLink(N), validateShareToken(N,T) is
\* true and validateShareToken(N,T') is false for every other T' (asked by the
\* note's owner, the caller every policy admits).
C6_TokenRoundTrip ==
    \A n \in NoteIds :
        (notes[n].live /\ urls[n] # <<>>) =>
            \A t \in Tokens :
                ValidateResult(notes[n].user_id, n, t) <=> (t = LastUrl(n))

\* C7: after generateShareLink(N) has returned URLs with T1 and later T2, T2
\* validates, T1 does not, and at most one token validates for N.
C7_TokenRotation ==
    \A n \in NoteIds :
        (notes[n].live /\ Len(urls[n]) >= 2) =>
            /\ ValidateResult(notes[n].user_id, n, LastUrl(n))
            /\ \A i \in 1..(Len(urls[n]) - 1) :
                  ~ValidateResult(notes[n].user_id, n, urls[n][i])
            /\ Cardinality({t \in Tokens :
                  ValidateResult(notes[n].user_id, n, t)}) <= 1

\* C8: no invite, remove, updatePermission or direct update sent by a caller
\* who is not the note's owner changes the stored collaborators.
C8_OwnerOnlyAdministration ==
    \A p \in Procs :
        LET a == procs[p] IN
        (/\ a.pc = "done"
         /\ a.op \in {"invite", "remove", "updatePermission", "directUpdate"}
         /\ a.caller # a.owner)
        => a.after = a.before

\* C9: while N holds the generated token T, validateShareToken(N,T) is true for
\* every caller: owner, collaborator, other signed-in user, anonymous.
C9_LinkAccessAnyCaller ==
    \A n \in NoteIds :
        (notes[n].live /\ notes[n].sharing_token # NullToken) =>
            \A caller \in Callers :
                ValidateResult(caller, n, notes[n].sharing_token)

\* A select of note n by caller returns the row.
CanRead(caller, n) == ~SelectSingle(caller, n).error

\* C10: a signed-in caller reads note N exactly when it is N's owner or the
\* user_id of some entry of N's collaborator list; nobody else reads N.
C10_ReadRule ==
    \A n \in NoteIds :
        notes[n].live =>
            /\ \A caller \in AuthUsers :
                  CanRead(caller, n) <=>
                     \/ caller = notes[n].user_id
                     \/ HasUser(ListOf(notes[n].collaborators), caller)
            /\ ~CanRead(Anon, n)

\* Some entry of l gives userId the permission edit.
HasEdit(l, userId) ==
    \E i \in DOMAIN l : l[i].user_id = userId /\ l[i].permission = "edit"

\* The caller is n's owner or is listed in n with permission edit.
MayUpdate(caller, n) ==
    \/ caller = notes[n].user_id
    \/ HasEdit(ListOf(notes[n].collaborators), caller)

\* Slot p is the one that took this step.
Acted(p) == procs' = procs \/ procs'[p] # procs[p]

\* C11: an update of an existing note takes effect exactly when the caller is
\* the owner or is listed with permission edit, and then sets what was sent;
\* no request of any other caller changes a field of the note.
C11_UpdateRule ==
    [][/\ \A p \in Procs :
             LET a == procs'[p]
                 n == a.noteId
             IN  (/\ Acted(p) /\ calls' = calls + 1
                  /\ a.op = "updateNote" /\ notes[n].live)
                 => /\ a.wrote <=> MayUpdate(a.caller, n)
                    /\ a.wrote => notes'[n] = [notes[n] EXCEPT !.title = a.title]
                    /\ ~a.wrote => notes' = notes
       /\ \A n \in NoteIds :
             (notes[n].live /\ notes'[n].live /\ notes'[n] # notes[n])
             => \E p \in Procs :
                   /\ Acted(p) /\ procs'[p].noteId = n
                   /\ MayUpdate(procs'[p].caller, n)]_vars

\* Entry e belongs to note n and is removed by this step.
EntryRemoved(e, n) ==
    entries[e].live /\ entries[e].note_id = n /\ ~entries'[e].live

\* C12: a step that removes note N, or an entry of N, is a request of N's
\* owner; a delete sent by a collaborator or a stranger removes nothing.
C12_OwnerOnlyDeletion ==
    [][\A n \in NoteIds :
          (\/ notes[n].live /\ ~notes'[n].live
           \/ \E e \in EntryIds : EntryRemoved(e, n))
          => \E p \in Procs :
                /\ Acted(p)
                /\ procs'[p].op \in {"deleteNote", "deleteEntries"}
                /\ procs'[p].noteId = n
                /\ procs'[p].caller = notes[n].user_id]_vars

\* A collaborator with permission edit has sent a delete; the note and its
\* entry are still there.
C12_Witness ==
    LET a == procs["p1"] IN
    /\ a.pc = "done" /\ a.op \in {"deleteNote", "deleteEntries"}
    /\ a.caller = "bob" /\ a.noteId = "n1"
    /\ notes["n1"].live
    /\ notes["n1"].collaborators.kind = "array"
    /\ HasEdit(ListOf(notes["n1"].collaborators), "bob")
    /\ a.result = "true" /\ ~a.wrote
    /\ entries["e1"].live /\ entries["e1"].note_id = "n1"

\* The caller is n's owner or is listed in n, with any permission.
MayRead(caller, n) ==
    \/ caller = notes[n].user_id
    \/ HasUser(ListOf(notes[n].collaborators), caller)

\* C13: an entry of note N is read exactly by the callers who may read N
\* (owner or listed), and an entry of N is created or updated exactly by the
\* callers who may update N (owner or listed with permission edit).
C13_EntryRules ==
    /\ \A e \in EntryIds : \A caller \in Callers :
          entries[e].live =>
             (CanReadEntry(caller, e) <=> MayRead(caller, entries[e].note_id))
    /\ LET a == procs["p1"] IN
       (/\ a.pc = "done" /\ a.op \in {"insertEntry", "updateEntry"}
        /\ notes[a.noteId].live)
       => (a.wrote <=> MayUpdate(a.caller, a.noteId))

\* C14: inviteCollaborator on a note id under which no note exists returns
\* false at once, sends no write and creates no note.
C14_InviteMissingNote ==
    [][\A p \in Procs :
          LET b == procs'[p] IN
          (/\ Acted(p) /\ calls' = calls + 1
           /\ b.op = "invite" /\ ~notes[b.noteId].live)
          => (/\ b.pc = "done" /\ b.result = "false" /\ ~b.wrote
              /\ notes' = notes /\ usedIds' = usedIds)]_vars

\* The owner of n1 has invited somebody to n2, which was never created.
C14_Witness ==
    LET b == procs["p1"] IN
    /\ b.pc = "done" /\ b.op = "invite" /\ b.caller = "alice"
    /\ b.noteId = "n2" /\ "n2" \notin usedIds /\ ~notes["n2"].live
    /\ b.result = "false" /\ ~b.wrote
    /\ notes["n2"] = NoRow

\* C15: a request that fails ends the call at once, without a retry: the
\* list operations and validateShareToken return false, generateShareLink
\* returns no URL; a failed read is followed by no write, and nothing is
\* stored by a failed request.
C15_FailuresReturned ==
    [][\A p \in Procs :
          LET a == procs[p]
              b == procs'[p]
          IN  /\ (/\ down /\ Acted(p) /\ calls' = calls + 1
                  /\ b.op \in {"invite", "remove", "updatePermission",
                                "validateShareToken"})
                 => (/\ b.pc = "done" /\ b.result = "false" /\ ~b.wrote
                     /\ notes' = notes)
              /\ (/\ down /\ Acted(p) /\ calls' = calls + 1
                  /\ b.op = "generateShareLink")
                 => (/\ b.pc = "done" /\ b.result = "false"
                     /\ b.url = NullToken /\ urls' = urls
                     /\ notes' = notes)
              /\ (down /\ a.pc = "updating" /\ b # a)
                 => (/\ b.pc = "done" /\ b.result = "false" /\ ~b.wrote
                     /\ notes' = notes)]_vars

\* The owner's invitation read the list, the store failed before the update,
\* and the call returned false with nothing written.
C15_Witness ==
    LET b == procs["p1"] IN
    /\ b.pc = "done" /\ b.op = "invite" /\ b.caller = "alice"
    /\ b.updated # <<>>
    /\ b.result = "false" /\ ~b.wrote
    /\ down
    /\ ListOf(notes["n1"].collaborators) = <<>>

\* C16: with one call at a time, when inviteCollaborator(N,c) has returned
\* true the stored list is the list from before the call followed by one new
\* last entry with c's user_id, email, display_name and permission and a
\* joined_at stamp; the earlier entries are unchanged.
C16_InviteAppends ==
    \A p \in Procs :
        LET a == procs[p]
            old == ListOf(a.before)
            new == ListOf(a.after)
        IN  (a.pc = "done" /\ a.op = "invite" /\ a.result = "true")
            => /\ Len(new) = Len(old) + 1
               /\ SubSeq(new, 1, Len(old)) = old
               /\ new[Len(new)].user_id = a.collaborator.user_id
               /\ new[Len(new)].email = a.collaborator.email
               /\ new[Len(new)].display_name = a.collaborator.display_name
               /\ new[Len(new)].permission = a.collaborator.permission
               /\ new[Len(new)].joined_at \in 0..now

\* A second invitation has succeeded with permission edit: the list holds
\* the first collaborator, then the second.
C16_Witness ==
    LET a == procs["p1"] IN
    /\ a.pc = "done" /\ a.op = "invite" /\ a.result = "true" /\ a.wrote
    /\ a.collaborator.permission = "edit"
    /\ Len(ListOf(a.before)) = 1
    /\ notes[a.noteId].live
    /\ notes[a.noteId].collaborators = a.after
    /\ Len(ListOf(a.after)) = 2

\* l is one entry, for bob with the given permission.
OnlyBob(l, permission) ==
    Len(l) = 1 /\ l[1].user_id = "bob" /\ l[1].permission = permission

\* C17: with one call at a time, when removeCollaborator(N,U) has returned
\* true the stored list has no entry for U and keeps every other entry, in
\* order; and on a note with an empty list the owner's invite(bob, view),
\* updatePermission(bob, edit) and remove(bob) each return true and leave
\* [bob/view], [bob/edit] and [].
C17_RemovalAndScenario ==
    \A p \in Procs :
        LET a == procs[p]
            old == ListOf(a.before)
            new == ListOf(a.after)
            mine == a.pc = "done" /\ a.caller = a.owner
        IN  /\ (a.pc = "done" /\ a.op = "remove" /\ a.result = "true")
               => (~HasUser(new, a.userId) /\ new = FilterOut(old, a.userId))
            /\ (/\ mine /\ a.op = "invite" /\ old = <<>>
                /\ a.collaborator.user_id = "bob"
                /\ a.collaborator.permission = "view")
               => (a.result = "true" /\ OnlyBob(new, "view"))
            /\ (/\ mine /\ a.op = "updatePermission" /\ OnlyBob(old, "view")
                /\ a.userId = "bob" /\ a.permission = "edit")
               => (a.result = "true" /\ OnlyBob(new, "edit"))
            /\ (/\ mine /\ a.op = "remove" /\ OnlyBob(old, "edit")
                /\ a.userId = "bob")
               => (a.result = "true" /\ new = <<>>)

RegistryOps ==
    {"invite", "remove", "updatePermission", "generateShareLink",
     "validateShareToken"}

\* This step is a request of a registry call running in slot p.
RegistryStep(p) ==
    /\ Acted(p)
    /\ procs'[p].op \in RegistryOps
    /\ \/ calls' = calls + 1
       \/ procs[p].pc = "updating" /\ procs'[p].pc = "done"

\* C18: a request of a registry call on note N, at any point of any
\* interleaving, leaves every other note as it was.
C18_NotesIndependent ==
    [][\A p \in Procs :
          RegistryStep(p) =>
             \A m \in NoteIds \ {procs'[p].noteId} : notes'[m] = notes[m]]_vars

\* Both notes exist and the same owner has generated a link for each, one
\* after the other: each note holds its own token.
C18_Witness ==
    LET a == procs["p1"] IN
    /\ notes["n1"].live /\ notes["n2"].live
    /\ notes["n1"].user_id = notes["n2"].user_id
    /\ a.pc = "done" /\ a.op = "generateShareLink" /\ a.noteId = "n2" /\ a.wrote
    /\ notes["n2"].sharing_token = a.token
    /\ notes["n1"].sharing_token \in Tokens \ {a.token}

\* C19: a request of invite, remove or updatePermission changes no field of
\* any note but collaborators, and no entry; a request of generateShareLink
\* changes no field but sharing_token, and no entry; the owner of a note
\* stays who it was, whatever runs.
C19_OwnFieldOnly ==
    [][/\ \A p \in Procs :
             /\ (/\ RegistryStep(p)
                 /\ procs'[p].op \in {"invite", "remove", "updatePermission"})
                => /\ entries' = entries
                   /\ \A n \in NoteIds :
                         notes'[n] = [notes[n] EXCEPT
                            !.collaborators = notes'[n].collaborators]
             /\ (RegistryStep(p) /\ procs'[p].op = "generateShareLink")
                => /\ entries' = entries
                   /\ \A n \in NoteIds :
                         notes'[n] = [notes[n] EXCEPT
                            !.sharing_token = notes'[n].sharing_token]
       /\ \A n \in NoteIds :
             (notes[n].live /\ notes'[n].live)
             => notes'[n].user_id = notes[n].user_id]_vars

\* An invitation has been written to a note that already had a share token
\* and an entry: both are still there, under the same owner.
C19_Witness ==
    LET a == procs["p1"] IN
    /\ a.pc = "done" /\ a.op = "invite" /\ a.result = "true" /\ a.wrote
    /\ a.noteId = "n1"
    /\ notes["n1"].collaborators = a.after
    /\ ListOf(a.after) # <<>>
    /\ notes["n1"].sharing_token \in Tokens
    /\ notes["n1"].user_id = a.owner
    /\ entries["e1"].live

\* The list call a computes from the list it read: that list with its own
\* change applied.
Computed(a) ==
    CASE a.op = "invite" ->
            /\ Len(a.updated) = Len(a.existing) + 1
            /\ SubSeq(a.updated, 1, Len(a.existing)) = a.existing
            /\ a.updated[Len(a.updated)].user_id = a.collaborator.user_id
            /\ a.updated[Len(a.updated)].permission = a.collaborator.permission
      [] a.op = "remove" -> a.updated = FilterOut(a.existing, a.userId)
      [] a.op = "updatePermission" ->
            OnlyPermissionChanged(a.existing, a.updated, a.userId, a.permission)
      [] OTHER -> FALSE

\* C20: among overlapping invite, remove and updatePermission calls on one
\* note every applied write leaves exactly the list its call computed from
\* its own read, whatever the others wrote in between, and nothing else
\* changes the list: the stored list is always that of the last write.
C20_LastWriteWins ==
    [][/\ \A p \in Procs :
             LET a == procs[p]
                 b == procs'[p]
             IN  (a.pc = "updating" /\ b.pc = "done" /\ b.wrote)
                 => /\ ListOf(notes'[a.noteId].collaborators) = a.updated
                    /\ Computed(a)
       /\ \A n \in NoteIds :
             notes'[n].collaborators # notes[n].collaborators
             => \E p \in Procs :
                   /\ procs[p].pc = "updating" /\ procs'[p].pc = "done"
                   /\ procs'[p].wrote /\ procs[p].noteId = n]_vars

\* A removal and a permission update overlapped an invitation: the call that
\* wrote last read the list before the other call's write, and the stored
\* list is the one it computed, without the other call's change.
C20_Witness ==
    \E p \in Procs : \E q \in Procs \ {p} :
        LET a == procs[p]
            b == procs[q]
        IN  /\ a.pc = "done" /\ a.wrote /\ a.op = "invite"
            /\ b.pc = "done" /\ b.wrote /\ b.op \in {"remove", "updatePermission"}
            /\ a.noteId = b.noteId
            /\ b.existing = a.existing
            /\ b.before = a.after
            /\ ListOf(b.before) # b.existing
            /\ notes[b.noteId].collaborators = b.after
            /\ ListOf(b.after) = b.updated
            /\ ~HasUser(ListOf(b.after), a.collaborator.user_id)

\* Every stored entry's note_id names an existing note.
EntriesHaveNotes ==
    \A e \in EntryIds : entries[e].live => notes[entries[e].note_id].live

\* C21: every stored entry's note_id names an existing note, and the step
\* that deletes a note removes every entry of that note and no entry of any
\* other note.
C21_CascadeDelete ==
    /\ []EntriesHaveNotes
    /\ [][\A n \in NoteIds :
             (notes[n].live /\ ~notes'[n].live)
             => \A e \in EntryIds :
                   IF entries[e].live /\ entries[e].note_id = n
                   THEN ~entries'[e].live
                   ELSE entries'[e] = entries[e]]_vars

\* The owner has deleted n1, which had an entry; the entry is gone and the
\* entry of the other note is still there.
C21_Witness ==
    LET a == procs["p1"] IN
    /\ a.pc = "done" /\ a.op = "deleteNote" /\ a.noteId = "n1" /\ a.wrote
    /\ ~notes["n1"].live /\ notes["n2"].live
    /\ ~entries["e1"].live
    /\ entries["e2"].live /\ entries["e2"].note_id = "n2"

ListOps == {"invite", "remove", "updatePermission"}

\* C22: a list operation that returns true has written its list to an
\* existing note, and generateShareLink that returns a URL with token T has
\* set sharing_token of an existing note to T.
C22_TrueMeansWritten ==
    [][\A p \in Procs :
          LET a == procs[p]
              b == procs'[p]
              n == b.noteId
          IN  /\ (/\ RegistryStep(p) /\ b.op \in ListOps
                  /\ b.pc = "done" /\ b.result = "true")
                 => (/\ notes[n].live /\ b.wrote
                     /\ notes'[n].collaborators = JSONstringify(a.updated))
              /\ (/\ RegistryStep(p) /\ b.op = "generateShareLink"
                  /\ b.url # NullToken)
                 => (/\ notes[n].live /\ b.wrote
                     /\ notes'[n].sharing_token = b.url)]_vars

\* This step is the applied write of the list call in slot p.
ListWrite(p) ==
    /\ procs[p].pc = "updating" /\ procs'[p].pc = "done" /\ procs'[p].wrote
    /\ procs[p].op \in ListOps

\* User u is not in n's stored list before this step and is in it after.
Returns(u, n) ==
    /\ notes[n].live /\ notes'[n].live
    /\ ~HasUser(ListOf(notes[n].collaborators), u)
    /\ HasUser(ListOf(notes'[n].collaborators), u)

\* C23: once removeCollaborator(N,U) has returned true, U comes back into
\* N's stored list only through the write of an inviteCollaborator for U; a
\* concurrent call for another user that read the list before the removal
\* wrote does not bring U back.
C23_RevocationSticks ==
    [][\A r \in Procs : \A w \in Procs :
          LET a == procs[r] IN
          (/\ a.pc = "done" /\ a.op = "remove" /\ a.result = "true"
           /\ Returns(a.userId, a.noteId)
           /\ ListWrite(w) /\ procs[w].noteId = a.noteId)
          => (/\ procs[w].op = "invite"
              /\ procs[w].collaborator.user_id = a.userId)]_vars

\* C24: a removeCollaborator or updateCollaboratorPermission whose target
\* is absent from the list it read never changes the stored list, also when
\* another caller's invite completed between its read and its write: the
\* collaborator that invite added is still there afterwards.
C24_NoOpHarmless ==
    [][\A p \in Procs :
          LET a == procs[p]
              n == a.noteId
          IN  (/\ ListWrite(p) /\ a.op \in {"remove", "updatePermission"}
               /\ ~HasUser(a.existing, a.userId))
              => ListOf(notes'[n].collaborators) = ListOf(notes[n].collaborators)]_vars

\* The list holds an entry without an email.
HasNoEmailEntry(l) == \E i \in DOMAIN l : l[i].email = Undefined

\* C25: inviteCollaborator compares the email by equality also when it is
\* absent: an invite without an email returns false and writes nothing when
\* the list it read holds an entry without an email, whatever the user ids;
\* an invite returns true only if its user_id differs from every listed
\* user_id and its email, present or absent, from every listed email.
C25_AbsentEmailIsCompared ==
    \A p \in Procs :
        LET a == procs[p] IN
        (a.pc = "done" /\ a.op = "invite")
        => /\ (a.collaborator.email = Undefined /\ HasNoEmailEntry(a.existing))
              => (a.result = "false" /\ ~a.wrote /\ a.after = a.before)
           /\ (a.result = "true")
              => \A i \in DOMAIN a.existing :
                    /\ a.existing[i].user_id # a.collaborator.user_id
                    /\ a.existing[i].email # a.collaborator.email

\* carol, invited without an email, was refused because bob is listed
\* without an email; the stored list still holds bob only.
C25_Witness ==
    LET a == procs["p1"] IN
    /\ a.pc = "done" /\ a.op = "invite" /\ a.result = "false" /\ ~a.wrote
    /\ a.collaborator.user_id = "carol" /\ a.collaborator.email = Undefined
    /\ Len(a.existing) = 1
    /\ a.existing[1].user_id = "bob" /\ a.existing[1].email = Undefined
    /\ ListOf(notes[a.noteId].collaborators) = a.existing

\* C26: after handleInvite has succeeded for email E with permission p, the
\* account E belongs to reads the note, and updates it when p is edit: the
\* user_id handleInvite stored is the id the policies compare with auth.uid().
C26_InviteGrantsAccess ==
    \A p \in Procs : \A u \in AuthUsers :
        LET a == procs[p] IN
        (/\ a.pc = "done" /\ a.op = "invite" /\ a.result = "true"
         /\ notes[a.noteId].collaborators = a.after
         /\ a.collaborator.email = AccountEmail[u])
        => /\ a.collaborator.user_id = u
           /\ NotesSelectPolicy(u, notes[a.noteId]) = "allow"
           /\ a.collaborator.permission = "edit"
              => NotesUpdatePolicy(u, notes[a.noteId]) = "allow"

\* C28: when handleCopyShareLink runs with no share link generated yet it
\* generates one first, and the text it writes to the clipboard is the URL
\* generateShareLink just returned; when a link exists it writes that link
\* and generates no token.
C28_CopyYieldsCurrentLink ==
    [][Len(button'.copied) = Len(button.copied) + 1
       => LET text == button'.copied[Len(button'.copied)] IN
          IF button.shareLink = EmptyText
          THEN /\ calls' = calls + 1
               /\ \A p \in Procs :
                     (/\ procs'[p] # procs[p]
                      /\ procs'[p].op = "generateShareLink"
                      /\ procs'[p].url # NullToken)
                     => text = procs'[p].url
          ELSE /\ text = button.shareLink
               /\ nextToken' = nextToken
               /\ notes' = notes]_vars

\* The live entries of n are exactly the submitted ones, one each, with
\* entry_order 0..Len-1 in the submitted order.
ExactlySubmitted(n, submitted) ==
    /\ Cardinality(EntriesOf(n)) = Len(submitted)
    /\ \A i \in DOMAIN submitted :
          \E e \in EntriesOf(n) :
              entries[e].entry_order = i - 1 /\ entries[e].content = submitted[i]

\* C27: when updateNoteMutation has succeeded for a caller allowed to update
\* the note (owner or listed with permission edit), the note's entries are
\* exactly the submitted ones, in order, with none from before the save; and
\* a save leaves the note with fewer entries than before only if it reports
\* its failure or is that exact replacement.
C27_SaveReplacesEntries ==
    LET a == procs["p1"]
        n == a.noteId
    IN  (a.pc = "done" /\ a.op = "saveNote")
        => /\ (a.result = "true" /\ notes[n].live /\ MayUpdate(a.caller, n))
              => ExactlySubmitted(n, a.submitted)
           /\ (Cardinality(EntriesOf(n)) < a.had)
              => (a.result = "false" \/ ExactlySubmitted(n, a.submitted))

====
